---------------------------- MODULE Spec2Model ----------------------------
(***************************************************************************)
(* Model of Mathis_Figure_S7B_qPCR.ipynb: the import of the two qPCR files *)
(* into cq_dict, the manual well correction, the four steps of the         *)
(* relative-expression calculation (mean/SEM, dCq, ddCq, linear scale) and *)
(* the construction of the lists handed to the bar chart.                  *)
(*                                                                         *)
(* Numbers.  A Python float is modelled as an exact rational               *)
(* [nan, n, d] (n/d in lowest terms, d > 0) or NaN; rounding error is not  *)
(* modelled, the special values are (NaN from empty or single-value        *)
(* groups, underflow to 0.0 and OverflowError of math.pow).  A value       *)
(* produced by math.sqrt / stats.sem is kept as a root [nan, rn, rd],      *)
(* standing for sqrt(rn/rd); a value produced by math.pow(2, x) is kept by *)
(* its exponent.  Cq values are counted in cycles; the two literals of the *)
(* well correction are kept to two decimals.                               *)
(***************************************************************************)
EXTENDS Integers, Sequences, FiniteSets, TLC

VARIABLES
    pc,                   \* the cell / loop the notebook is executing
    err,                  \* the exception that stopped it, or "none"
    fi,                   \* index into file_list of the file being read
    nread,                \* data lines read so far, over both files
    first_line,           \* what f.readline() returned for the open file
    sp,                   \* line.split(',') of the line being processed
    cq_dict,
    cq_mean_dict, cq_sem_dict,
    d_cq_mean_dict, d_cq_sem_dict,
    dd_cq_mean_dict, dd_cq_sem_dict,
    dd_cq_mean_lin_dict, dd_cq_sem_lin_dict,
    qPCR_mean, qPCR_sem, labels

vars == <<pc, err, fi, nread, first_line, sp, cq_dict,
          cq_mean_dict, cq_sem_dict, d_cq_mean_dict, d_cq_sem_dict,
          dd_cq_mean_dict, dd_cq_sem_dict,
          dd_cq_mean_lin_dict, dd_cq_sem_lin_dict,
          qPCR_mean, qPCR_sem, labels>>

tables == <<cq_mean_dict, cq_sem_dict, d_cq_mean_dict, d_cq_sem_dict,
            dd_cq_mean_dict, dd_cq_sem_dict,
            dd_cq_mean_lin_dict, dd_cq_sem_lin_dict>>

outputs == <<qPCR_mean, qPCR_sem, labels>>

(***************************************************************************)
(* Bounds of the model.                                                    *)
(***************************************************************************)
\* data lines the two input files hold together (import specification)
MaxRows == 3
\* replicates per group in the tables the calculation is applied to
MaxReps == 2

(***************************************************************************)
(* Rational arithmetic with NaN.                                           *)
(***************************************************************************)
Abs(x) == IF x < 0 THEN -x ELSE x

RECURSIVE GCD(_, _)
GCD(a, b) == IF b = 0 THEN a ELSE GCD(b, a % b)

LCM(a, b) == (a \div GCD(a, b)) * b

NaN == [nan |-> TRUE, n |-> 0, d |-> 1]

Rat(n, d) ==
    LET s == IF d < 0 THEN -1 ELSE 1
        g == GCD(Abs(n), Abs(d))
    IN  [nan |-> FALSE, n |-> (s * n) \div g, d |-> (s * d) \div g]

Int2Rat(i) == [nan |-> FALSE, n |-> i, d |-> 1]

RatAdd(a, b) ==
    IF a.nan \/ b.nan THEN NaN
    ELSE LET l == LCM(a.d, b.d)
         IN  Rat(a.n * (l \div a.d) + b.n * (l \div b.d), l)

RatNeg(a) == IF a.nan THEN NaN ELSE [a EXCEPT !.n = -a.n]

RatSub(a, b) == RatAdd(a, RatNeg(b))

RatMul(a, b) ==
    IF a.nan \/ b.nan THEN NaN
    ELSE LET g1 == GCD(Abs(a.n), b.d)
             g2 == GCD(Abs(b.n), a.d)
         IN  Rat((a.n \div g1) * (b.n \div g2), (a.d \div g2) * (b.d \div g1))

RatDivInt(a, k) == IF a.nan \/ k = 0 THEN NaN ELSE RatMul(a, Rat(1, k))

\* a < b on finite rationals
RatLess(a, b) == a.n * b.d < b.n * a.d

RatLeq(a, b) == a.n * b.d <= b.n * a.d

RECURSIVE RatSum(_)
RatSum(xs) == IF xs = <<>> THEN Int2Rat(0) ELSE RatAdd(Head(xs), RatSum(Tail(xs)))

RECURSIVE SumSqDev(_, _)
SumSqDev(xs, m) ==
    IF xs = <<>> THEN Int2Rat(0)
    ELSE LET dv == RatSub(Head(xs), m)
         IN  RatAdd(RatMul(dv, dv), SumSqDev(Tail(xs), m))

(***************************************************************************)
(* Roots: the value sqrt(rn/rd), or NaN.                                   *)
(***************************************************************************)
RootNaN == [nan |-> TRUE, rn |-> 0, rd |-> 1]

\* math.sqrt(q), q >= 0 (every argument in the notebook is a sum of squares)
math_sqrt(q) == IF q.nan THEN RootNaN ELSE [nan |-> FALSE, rn |-> q.n, rd |-> q.d]

\* r**2
Squared(r) == IF r.nan THEN NaN ELSE [nan |-> FALSE, n |-> r.rn, d |-> r.rd]

(***************************************************************************)
(* numpy / scipy.                                                          *)
(***************************************************************************)
\* mutant: the sum of the replicates, not divided by their number
np_mean_NoDivide(xs) == IF Len(xs) = 0 THEN NaN ELSE RatSum(xs)

\* np.mean: the sum over the count; nan for an empty list (0/0)
np_mean(xs) == IF Len(xs) = 0 THEN NaN ELSE RatDivInt(RatSum(xs), Len(xs))

\* mutant: the spread of the values taken as 1, the error is 1 / sqrt(n)
stats_sem_CountOnly(xs) ==
    IF Len(xs) < 2 THEN RootNaN ELSE math_sqrt(Rat(1, Len(xs)))

\* stats.sem (ddof = 1): sqrt(sum((x - mean)^2) / (n - 1)) / sqrt(n);
\* nan for fewer than two values (division by n - 1 = 0, or empty)
stats_sem(xs) ==
    LET cnt == Len(xs)
    IN  IF cnt < 2 THEN RootNaN
        ELSE math_sqrt(RatDivInt(RatDivInt(SumSqDev(xs, np_mean(xs)), cnt - 1), cnt))

(***************************************************************************)
(* Python dicts: the keys in insertion order and the mapping.              *)
(***************************************************************************)
EmptyDict == [keys |-> <<>>, val |-> <<>>]

HasKey(dct, k) == k \in DOMAIN dct.val

Get(dct, k) == dct.val[k]

\* dct[k] = v: a new key goes last, an existing key keeps its place
DictSet(dct, k, v) ==
    IF HasKey(dct, k) THEN [dct EXCEPT !.val[k] = v]
    ELSE [keys |-> Append(dct.keys, k), val |-> (k :> v) @@ dct.val]

Get2(dct, k1, k2) == Get(Get(dct, k1), k2)

Set2(dct, k1, k2, v) == DictSet(dct, k1, DictSet(Get(dct, k1), k2, v))

KeySet(dct) == DOMAIN dct.val

(***************************************************************************)
(* Paths and variables unique to this analysis.                            *)
(***************************************************************************)
file_list == <<"20200806_luna_rtqpcr_quant.csv", "20200813_luna_rtqpcr_quant.csv">>

\* file_name[0:8]
file_date(file_name) == SubSeq(file_name, 1, 8)

gene_list ==
    ("20200806" :> <<"hcaT", "topA", "ribB">>) @@
    ("20200813" :> <<"hcaT", "ispA", "mukF", "tadA">>)

RefGene == "hcaT"

\* 'Rand42_' + file_date
RefGuide(date) == "Rand42_" \o date

InList(x, xs) == \E i \in 1..Len(xs) : xs[i] = x

\* the (file_date, gene) pairs in the order of the nested loops
\*   for file_name in file_list: for gene in gene_list[file_date]:
RECURSIVE GenePairs(_, _)
GenePairs(fidx, gidx) ==
    IF fidx > Len(file_list) THEN <<>>
    ELSE LET date == file_date(file_list[fidx])
         IN  IF gidx > Len(gene_list[date]) THEN GenePairs(fidx + 1, 1)
             ELSE <<<<date, gene_list[date][gidx]>>>> \o GenePairs(fidx, gidx + 1)

Visits == GenePairs(1, 1)

(***************************************************************************)
(* cq_dict = {} and the two initialisation loops.                          *)
(***************************************************************************)
RECURSIVE InitGenes(_, _)
InitGenes(dct, i) ==
    IF i > Len(Visits) THEN dct
    ELSE InitGenes(DictSet(dct, Visits[i][2], EmptyDict), i + 1)

RegisterGene(dct, date, gene) ==
    LET d1 == Set2(dct, gene, gene \o "1_C", <<>>)
        d2 == Set2(d1, gene, gene \o "3_C", <<>>)
        d3 == Set2(d2, gene, RefGuide(date), <<>>)
        d4 == Set2(d3, RefGene, gene \o "1_C", <<>>)
        d5 == Set2(d4, RefGene, gene \o "3_C", <<>>)
    IN  Set2(d5, RefGene, RefGuide(date), <<>>)

RECURSIVE InitGuides(_, _)
InitGuides(dct, i) ==
    IF i > Len(Visits) THEN dct
    ELSE InitGuides(IF Visits[i][2] # RefGene
                      THEN RegisterGene(dct, Visits[i][1], Visits[i][2])
                      ELSE dct,
                    i + 1)

InitCqDict == InitGuides(InitGenes(EmptyDict, 1), 1)


(***************************************************************************)
(* The input files.  A line is what line.split(',') returns for it: the    *)
(* list of its fields, the last one carrying the line break.  Column index *)
(* 2 is the gene, 4 the sgRNA, 5 the raw Cq (sp[3], sp[5], sp[6] here:     *)
(* TLA+ sequences start at 1).                                             *)
(***************************************************************************)
GeneTokens == {"", "hcaT", "topA", "ispA", "lacZ"}

GuideTokens == {"topA1_C", "Rand42_20200806", "Rand42_20200813", "lacZ1_C"}

CqTokens == {"", "22", "23", "abc"}

Row(gene, guide, cq) == <<"A01", "SYBR", gene, "Unkn", guide, cq, "0\n">>

\* a data line whose Cq column is the last one
Row6(gene, guide, cq) == <<"A01", "SYBR", gene, "Unkn", guide, cq \o "\n">>

\* lines with too few fields: a blank line, two fields, four fields
ShortLines ==
    {<<"\n">>, <<"A01", "SYBR\n">>,
     <<"A01", "SYBR", "topA", "Unkn\n">>, <<"A01", "SYBR", "", "Unkn\n">>}

Lines ==
    {Row(g, u, c) : g \in GeneTokens, u \in GuideTokens, c \in CqTokens}
    \cup {Row6("topA", "topA1_C", c) : c \in {"", "22"}}
    \cup ShortLines

HeaderLine == <<"Well", "Fluor", "Target", "Content", "Sample", "Cq", "SQ\n">>

\* what the first line of a file may be: a header, or already a data row
FirstLines == {HeaderLine, Row("hcaT", "Rand42_20200806", "22")}

(***************************************************************************)
(* float(s) on the tokens of the model: surrounding white space is         *)
(* stripped, a string of decimal digits is its value, anything else (the   *)
(* empty string included) raises ValueError.                               *)
(***************************************************************************)
Digit ==
    ("0" :> 0) @@ ("1" :> 1) @@ ("2" :> 2) @@ ("3" :> 3) @@ ("4" :> 4) @@
    ("5" :> 5) @@ ("6" :> 6) @@ ("7" :> 7) @@ ("8" :> 8) @@ ("9" :> 9)

RECURSIVE Strip(_)
Strip(s) ==
    IF Len(s) > 0 /\ SubSeq(s, Len(s), Len(s)) \in {"\n", " "}
    THEN Strip(SubSeq(s, 1, Len(s) - 1))
    ELSE s

IsDigits(s) == Len(s) > 0 /\ \A i \in 1..Len(s) : SubSeq(s, i, i) \in DOMAIN Digit

RECURSIVE DigitsValue(_)
DigitsValue(s) ==
    IF Len(s) = 0 THEN 0
    ELSE 10 * DigitsValue(SubSeq(s, 1, Len(s) - 1)) + Digit[SubSeq(s, Len(s), Len(s))]

FloatOk(s) == IsDigits(Strip(s))

float(s) == Int2Rat(DigitsValue(Strip(s)))

(***************************************************************************)
(* One pass of the body of `for line in f`.  The result names what the     *)
(* line does: "IndexError" / "ValueError" (the exception raised), "skip"   *)
(* (first condition false), "drop" (second condition false), "append".     *)
(***************************************************************************)
\* mutant: every line is parsed before it is filtered
LineResult_ParseFirst(cq, date, line) ==
    IF Len(line) < 6 THEN "IndexError"
    ELSE IF line[3] = "" \/ line[6] = "" THEN "skip"
    ELSE IF ~FloatOk(line[6]) THEN "ValueError"
    ELSE IF ~InList(line[3], gene_list[date]) THEN "drop"
    ELSE IF ~HasKey(Get(cq, line[3]), line[5]) THEN "drop"
    ELSE "append"

LineResult(cq, date, line) ==
    IF Len(line) < 3 THEN "IndexError"                    \* sp[2]
    ELSE IF line[3] = "" THEN "skip"                      \* and short-circuits
    ELSE IF Len(line) < 6 THEN "IndexError"               \* sp[5]
    ELSE IF line[6] = "" THEN "skip"
    ELSE IF ~InList(line[3], gene_list[date]) THEN "drop"
    ELSE IF ~HasKey(Get(cq, line[3]), line[5]) THEN "drop"
    ELSE IF ~FloatOk(line[6]) THEN "ValueError"
    ELSE "append"

\* cq_dict[sp[2]][sp[4]].append(float(sp[5]))
AppendCq(cq, line) ==
    Set2(cq, line[3], line[5], Append(Get2(cq, line[3], line[5]), float(line[6])))

IsError(res) == res \in {"IndexError", "ValueError"}

(***************************************************************************)
(* Well correction: the group is replaced by the two kept replicates,      *)
(* [23.48359183, 23.68555433].                                             *)
(***************************************************************************)
CorrectedGroup == <<Rat(2348, 100), Rat(2369, 100)>>

\* the group as the notebook printed it before the correction
PrintedGroup == <<Rat(2183, 100), Rat(2348, 100), Rat(2369, 100)>>

\* mutant: the group keeps the replicate that was to be excluded
WellCorrected_KeepFirst(cq) == Set2(cq, "hcaT", "Rand42_20200806", PrintedGroup)

WellCorrected(cq) == Set2(cq, "hcaT", "Rand42_20200806", CorrectedGroup)

(***************************************************************************)
(* The loops of the calculation.  Each has the shape                       *)
(*     for file_name in file_list:                                         *)
(*         for gene in gene_list[file_date]:                               *)
(*             out[gene] = {}                                              *)
(*             for guide in src[gene].keys(): out[gene][guide] = f(...)    *)
(* so out gets the visited genes as keys, in the order of their first      *)
(* visit, and out[gene] the keys of src[gene] in their order.              *)
(***************************************************************************)
RECURSIVE Distinct(_)
Distinct(xs) ==
    IF xs = <<>> THEN <<>>
    ELSE LET rest == Distinct(SubSeq(xs, 1, Len(xs) - 1))
             x == xs[Len(xs)]
         IN  IF InList(x, rest) THEN rest ELSE Append(rest, x)

\* the genes the loops visit, with and without the reference gene
AllGenes == Distinct([i \in 1..Len(Visits) |-> Visits[i][2]])

TargetGenes == SelectSeq(AllGenes, LAMBDA g : g # RefGene)

SeqToSet(xs) == {xs[i] : i \in 1..Len(xs)}

\* the file date of the last visit of the gene (the one whose value stays)
VisitDate(gene) ==
    Visits[CHOOSE i \in 1..Len(Visits) :
             /\ Visits[i][2] = gene
             /\ \A j \in (i + 1)..Len(Visits) : Visits[j][2] # gene][1]

LoopTable(genes, src, F(_, _)) ==
    [keys |-> genes,
     val  |-> [g \in SeqToSet(genes) |->
                 [keys |-> Get(src, g).keys,
                  val  |-> [k \in KeySet(Get(src, g)) |-> F(g, k)]]]]

(***************************************************************************)
(* Find mean and sem of replicate values.                                  *)
(***************************************************************************)
CqStats(cq) ==
    [mean |-> LoopTable(AllGenes, cq, LAMBDA g, k : np_mean(Get2(cq, g, k))),
     sem  |-> LoopTable(AllGenes, cq, LAMBDA g, k : stats_sem(Get2(cq, g, k)))]

(***************************************************************************)
(* Normalize by hcaT abundance.                                            *)
(***************************************************************************)
\* mutant: the gene minus the reference gene
dCqMean_Reversed(st, gene, guide) ==
    RatSub(Get2(st.mean, gene, guide), Get2(st.mean, RefGene, guide))

dCqMean(st, gene, guide) ==
    RatSub(Get2(st.mean, RefGene, guide), Get2(st.mean, gene, guide))

\* mutant: the gene's SEM taken twice, the reference gene's not at all
dCqSem_SameTwice(st, gene, guide) ==
    math_sqrt(RatAdd(Squared(Get2(st.sem, gene, guide)),
                     Squared(Get2(st.sem, gene, guide))))

dCqSem(st, gene, guide) ==
    math_sqrt(RatAdd(Squared(Get2(st.sem, RefGene, guide)),
                     Squared(Get2(st.sem, gene, guide))))

\* mutant: the loop does not leave out the reference gene
DeltaCqOf_AllGenes(st) ==
    [mean |-> LoopTable(AllGenes, st.mean, LAMBDA g, k : dCqMean(st, g, k)),
     sem  |-> LoopTable(AllGenes, st.mean, LAMBDA g, k : dCqSem(st, g, k))]

DeltaCqOf(st) ==
    [mean |-> LoopTable(TargetGenes, st.mean, LAMBDA g, k : dCqMean(st, g, k)),
     sem  |-> LoopTable(TargetGenes, st.mean, LAMBDA g, k : dCqSem(st, g, k))]

(***************************************************************************)
(* Normalize by target transcript abundance without CRISPRi.               *)
(***************************************************************************)
\* mutant: every guide is taken as its own baseline
ddCqMean_OwnBaseline(dc, date, gene, guide) ==
    RatSub(Get2(dc.mean, gene, guide), Get2(dc.mean, gene, guide))

\* mutant: the baseline added instead of subtracted
ddCqMean_Added(dc, date, gene, guide) ==
    RatAdd(Get2(dc.mean, gene, guide), Get2(dc.mean, gene, RefGuide(date)))

ddCqMean(dc, date, gene, guide) ==
    RatSub(Get2(dc.mean, gene, guide), Get2(dc.mean, gene, RefGuide(date)))

\* mutant: the error of the guide alone, the baseline's error left out
ddCqSem_GuideOnly(dc, date, gene, guide) ==
    math_sqrt(RatAdd(Squared(Get2(dc.sem, gene, guide)), Int2Rat(0)))

ddCqSem(dc, date, gene, guide) ==
    math_sqrt(RatAdd(Squared(Get2(dc.sem, gene, guide)),
                     Squared(Get2(dc.sem, gene, RefGuide(date)))))

DeltaDeltaCqOf(dc) ==
    [mean |-> LoopTable(TargetGenes, dc.mean,
                        LAMBDA g, k : ddCqMean(dc, VisitDate(g), g, k)),
     sem  |-> LoopTable(TargetGenes, dc.mean,
                        LAMBDA g, k : ddCqSem(dc, VisitDate(g), g, k))]

(***************************************************************************)
(* Transform to a linear scale.  math.pow(2, x) on IEEE doubles: nan for   *)
(* nan, OverflowError from 2^1024 on, 0.0 from 2^-1075 down (half the      *)
(* smallest subnormal rounds to even), a positive double in between.       *)
(* A linear value is [kind, e, rn, rd]: "nan", "zero" (0.0), or "pos";     *)
(* a "pos" fold change is 2^e (rn = rd = 1), a "pos" error is              *)
(* ln(2) * sqrt(rn/rd) * 2^e.                                              *)
(***************************************************************************)
PowMaxExp == 1024

PowMinExp == -1075

LinNaN == [kind |-> "nan", e |-> Int2Rat(0), rn |-> 0, rd |-> 1]

LinZero == [kind |-> "zero", e |-> Int2Rat(0), rn |-> 0, rd |-> 1]

PowOverflows(x) == ~x.nan /\ RatLeq(Int2Rat(PowMaxExp), x)

\* mutant: single precision, which underflows to 0.0 from 2^-150 down
math_pow2_Float32(x) ==
    IF x.nan THEN LinNaN
    ELSE IF RatLeq(x, Int2Rat(-150)) THEN LinZero
    ELSE [kind |-> "pos", e |-> x, rn |-> 1, rd |-> 1]

\* math.pow(2, x), for an x that does not overflow
math_pow2(x) ==
    IF x.nan THEN LinNaN
    ELSE IF RatLeq(x, Int2Rat(PowMinExp)) THEN LinZero
    ELSE [kind |-> "pos", e |-> x, rn |-> 1, rd |-> 1]

\* np.log(2) * sem * lin (for the Cq values of this model the product of a
\* finite error and a finite fold change stays below the largest double)
LinSem(sem, lin) ==
    IF sem.nan \/ lin.kind = "nan" THEN LinNaN
    ELSE IF sem.rn = 0 \/ lin.kind = "zero" THEN LinZero
    ELSE [kind |-> "pos", e |-> lin.e, rn |-> sem.rn, rd |-> sem.rd]

\* the (gene, guide) pairs in the order the loop computes them
RECURSIVE GuidePairs(_, _, _)
GuidePairs(src, genes, i) ==
    IF i > Len(genes) THEN <<>>
    ELSE [j \in 1..Len(Get(src, genes[i]).keys) |-> <<genes[i], Get(src, genes[i]).keys[j]>>]
         \o GuidePairs(src, genes, i + 1)

\* The loop stops at the first pair whose math.pow raises OverflowError:
\* the genes before it are complete, its own gene holds the guides before it
\* (the gene's dict was created empty before its guides were computed).
LinearOf(dd) ==
    LET pairs == GuidePairs(dd.mean, TargetGenes, 1)
        bad == {i \in 1..Len(pairs) : PowOverflows(Get2(dd.mean, pairs[i][1], pairs[i][2]))}
        stop == IF bad = {} THEN Len(pairs) + 1
                ELSE CHOOSE i \in bad : \A j \in bad : i <= j
        done == SubSeq(pairs, 1, stop - 1)
        genes == IF bad = {} THEN TargetGenes
                 ELSE SelectSeq(TargetGenes,
                                LAMBDA g : \E i \in 1..stop : pairs[i][1] = g)
        part == [keys |-> genes,
                 val  |-> [g \in SeqToSet(genes) |->
                             LET ks == SelectSeq(Get(dd.mean, g).keys,
                                                 LAMBDA k : InList(<<g, k>>, done))
                             IN  [keys |-> ks, val |-> [k \in SeqToSet(ks) |-> 0]]]]
        Fold(g, k) == math_pow2(Get2(dd.mean, g, k))
    IN  [mean |-> LoopTable(genes, part, Fold),
         sem  |-> LoopTable(genes, part,
                            LAMBDA g, k : LinSem(Get2(dd.sem, g, k), Fold(g, k))),
         err  |-> IF bad = {} THEN "none" ELSE "OverflowError"]

(***************************************************************************)
(* Figure S7B: the lists handed to ax.bar.                                 *)
(***************************************************************************)
\* guide.startswith('Rand42')
StartsWithRand42(guide) == Len(guide) >= 6 /\ SubSeq(guide, 1, 6) = "Rand42"

\* mutant: the guides starting with 'Rand42' are appended like the others
PlotLists_KeepsReference(ddmean, lin) ==
    LET pairs == GuidePairs(ddmean, TargetGenes, 1)
    IN  [mean   |-> [i \in 1..Len(pairs) |-> Get2(lin.mean, pairs[i][1], pairs[i][2])],
         sem    |-> [i \in 1..Len(pairs) |-> Get2(lin.sem, pairs[i][1], pairs[i][2])],
         labels |-> [i \in 1..Len(pairs) |-> pairs[i][2]]]

\* hcaT is skipped (continue), then every guide of dd_cq_mean_dict[gene]
\* that does not start with 'Rand42' is appended to the three lists
PlotLists(ddmean, lin) ==
    LET pairs == SelectSeq(GuidePairs(ddmean, TargetGenes, 1),
                           LAMBDA p : ~StartsWithRand42(p[2]))
    IN  [mean   |-> [i \in 1..Len(pairs) |-> Get2(lin.mean, pairs[i][1], pairs[i][2])],
         sem    |-> [i \in 1..Len(pairs) |-> Get2(lin.sem, pairs[i][1], pairs[i][2])],
         labels |-> [i \in 1..Len(pairs) |-> pairs[i][2]]]

(***************************************************************************)
(* The state machine.                                                      *)
(***************************************************************************)
NoTables ==
    /\ cq_mean_dict = EmptyDict /\ cq_sem_dict = EmptyDict
    /\ d_cq_mean_dict = EmptyDict /\ d_cq_sem_dict = EmptyDict
    /\ dd_cq_mean_dict = EmptyDict /\ dd_cq_sem_dict = EmptyDict
    /\ dd_cq_mean_lin_dict = EmptyDict /\ dd_cq_sem_lin_dict = EmptyDict
    /\ qPCR_mean = <<>> /\ qPCR_sem = <<>> /\ labels = <<>>

\* after the initialisation loops of the import cell, before a file is opened
Init ==
    /\ pc = "open" /\ err = "none" /\ fi = 1 /\ nread = 0
    /\ first_line = <<>> /\ sp = <<>>
    /\ cq_dict = InitCqDict
    /\ NoTables

\* mutant: the first line is not set aside but handled like a data line
OpenFile_KeepsFirstLine ==
    /\ pc = "open"
    /\ \E l \in FirstLines :
         /\ first_line' = l
         /\ cq_dict' = IF LineResult(cq_dict, file_date(file_list[fi]), l) = "append"
                        THEN AppendCq(cq_dict, l) ELSE cq_dict
    /\ pc' = "read"
    /\ UNCHANGED <<err, fi, nread, sp, tables, outputs>>

\* with open(input_path + file_name, 'r') as f: first_line = f.readline()
OpenFile ==
    /\ pc = "open"
    /\ \E l \in FirstLines : first_line' = l
    /\ pc' = "read"
    /\ UNCHANGED <<err, fi, nread, sp, cq_dict, tables, outputs>>

\* one line of `for line in f`
ImportRow ==
    /\ pc = "read" /\ nread < MaxRows
    /\ \E line \in Lines :
         LET res == LineResult(cq_dict, file_date(file_list[fi]), line)
         IN  /\ sp' = line
             /\ cq_dict' = IF res = "append" THEN AppendCq(cq_dict, line) ELSE cq_dict
             /\ err' = IF IsError(res) THEN res ELSE "none"
             /\ pc' = IF IsError(res) THEN "aborted" ELSE "read"
    /\ nread' = nread + 1
    /\ UNCHANGED <<fi, first_line, tables, outputs>>

\* the file is exhausted: the next file, or the next cell
EndOfFile ==
    /\ pc = "read"
    /\ fi' = fi + 1
    /\ pc' = IF fi < Len(file_list) THEN "open" ELSE "correct"
    /\ first_line' = <<>> /\ sp' = <<>>
    /\ UNCHANGED <<err, nread, cq_dict, tables, outputs>>

\* cq_dict['hcaT']['Rand42_20200806'] = [23.48359183, 23.68555433]
WellCorrection ==
    /\ pc = "correct"
    /\ cq_dict' = WellCorrected(cq_dict)
    /\ pc' = "aggregate"
    /\ UNCHANGED <<err, fi, nread, first_line, sp, tables, outputs>>

\* mutant: the replicates are taken out of cq_dict while they are aggregated
Aggregate_Consuming ==
    /\ pc = "aggregate"
    /\ LET st == CqStats(cq_dict)
       IN  cq_mean_dict' = st.mean /\ cq_sem_dict' = st.sem
    /\ cq_dict' = InitCqDict
    /\ pc' = "dcq"
    /\ UNCHANGED <<err, fi, nread, first_line, sp,
                   d_cq_mean_dict, d_cq_sem_dict, dd_cq_mean_dict, dd_cq_sem_dict,
                   dd_cq_mean_lin_dict, dd_cq_sem_lin_dict, outputs>>

Aggregate ==
    /\ pc = "aggregate"
    /\ LET st == CqStats(cq_dict)
       IN  cq_mean_dict' = st.mean /\ cq_sem_dict' = st.sem
    /\ pc' = "dcq"
    /\ UNCHANGED <<err, fi, nread, first_line, sp, cq_dict,
                   d_cq_mean_dict, d_cq_sem_dict, dd_cq_mean_dict, dd_cq_sem_dict,
                   dd_cq_mean_lin_dict, dd_cq_sem_lin_dict, outputs>>

DeltaCq ==
    /\ pc = "dcq"
    /\ LET dc == DeltaCqOf([mean |-> cq_mean_dict, sem |-> cq_sem_dict])
       IN  d_cq_mean_dict' = dc.mean /\ d_cq_sem_dict' = dc.sem
    /\ pc' = "ddcq"
    /\ UNCHANGED <<err, fi, nread, first_line, sp, cq_dict,
                   cq_mean_dict, cq_sem_dict, dd_cq_mean_dict, dd_cq_sem_dict,
                   dd_cq_mean_lin_dict, dd_cq_sem_lin_dict, outputs>>

DeltaDeltaCq ==
    /\ pc = "ddcq"
    /\ LET dd == DeltaDeltaCqOf([mean |-> d_cq_mean_dict, sem |-> d_cq_sem_dict])
       IN  dd_cq_mean_dict' = dd.mean /\ dd_cq_sem_dict' = dd.sem
    /\ pc' = "lin"
    /\ UNCHANGED <<err, fi, nread, first_line, sp, cq_dict,
                   cq_mean_dict, cq_sem_dict, d_cq_mean_dict, d_cq_sem_dict,
                   dd_cq_mean_lin_dict, dd_cq_sem_lin_dict, outputs>>

Linearize ==
    /\ pc = "lin"
    /\ LET lin == LinearOf([mean |-> dd_cq_mean_dict, sem |-> dd_cq_sem_dict])
       IN  /\ dd_cq_mean_lin_dict' = lin.mean
           /\ dd_cq_sem_lin_dict' = lin.sem
           /\ err' = lin.err
           /\ pc' = IF lin.err = "none" THEN "plot" ELSE "aborted"
    /\ UNCHANGED <<fi, nread, first_line, sp, cq_dict,
                   cq_mean_dict, cq_sem_dict, d_cq_mean_dict, d_cq_sem_dict,
                   dd_cq_mean_dict, dd_cq_sem_dict, outputs>>

Plot ==
    /\ pc = "plot"
    /\ LET out == PlotLists(dd_cq_mean_dict,
                            [mean |-> dd_cq_mean_lin_dict, sem |-> dd_cq_sem_lin_dict])
       IN  qPCR_mean' = out.mean /\ qPCR_sem' = out.sem /\ labels' = out.labels
    /\ pc' = "done"
    /\ UNCHANGED <<err, fi, nread, first_line, sp, cq_dict, tables>>

Calculate ==
    \/ WellCorrection
    \/ Aggregate
    \/ DeltaCq
    \/ DeltaDeltaCq
    \/ Linearize
    \/ Plot

Next ==
    \/ OpenFile
    \/ ImportRow
    \/ EndOfFile
    \/ Calculate

Spec == Init /\ [][Next]_vars

(***************************************************************************)
(* The calculation on its own: the cells after the import, applied to      *)
(* replicate tables drawn from bounded sets.  One gene is measured: its    *)
(* '1_C' guide and its reference guide hold replicates for the gene and    *)
(* for hcaT, every other group is as the initialisation left it (no row    *)
(* was read for it).                                                       *)
(***************************************************************************)
\* the non-decreasing sequences over S of length at most k (the order of the
\* replicates within a group changes neither its mean nor its SEM)
RECURSIVE SeqsUpTo(_, _)
SeqsUpTo(S, k) ==
    IF k = 0 THEN {<<>>}
    ELSE LET shorter == SeqsUpTo(S, k - 1)
         IN  shorter \cup
             UNION {{Append(q, x) : x \in {y \in S : q = <<>> \/ q[Len(q)] <= y}} :
                    q \in shorter}

\* ordinary Cq values, in cycles
CqValues == {22, 23}

\* Cq values far enough apart to leave the exponent range of a double
WideCqValues == {22, 563}

Groups(S) == {[i \in 1..Len(q) |-> Int2Rat(q[i])] : q \in SeqsUpTo(S, MaxReps)}

\* the file date whose gene list names the gene
GeneDate(gene) ==
    CHOOSE date \in DOMAIN gene_list : InList(gene, gene_list[date])

Loaded(gene, hcaT_g, gene_g, hcaT_ref, gene_ref) ==
    LET ref == RefGuide(GeneDate(gene))
        c1 == Set2(InitCqDict, RefGene, gene \o "1_C", hcaT_g)
        c2 == Set2(c1, gene, gene \o "1_C", gene_g)
        c3 == Set2(c2, RefGene, ref, hcaT_ref)
    IN  Set2(c3, gene, ref, gene_ref)

ImportDone ==
    /\ pc = "correct" /\ err = "none" /\ fi = Len(file_list) + 1 /\ nread = 0
    /\ first_line = <<>> /\ sp = <<>>
    /\ NoTables

InitCalc ==
    /\ ImportDone
    /\ \E gene \in {"topA", "ispA"} :
         \E a \in Groups(CqValues), b \in Groups(CqValues),
            c \in Groups(CqValues) \cup {PrintedGroup}, d \in Groups(CqValues) :
              cq_dict = Loaded(gene, a, b, c, d)

SpecCalc == InitCalc /\ [][Calculate]_vars

InitRange ==
    /\ ImportDone
    /\ \E a \in Groups(WideCqValues), b \in Groups(WideCqValues),
          c \in Groups(WideCqValues), d \in Groups(WideCqValues) :
            cq_dict = Loaded("ispA", a, b, c, d)

SpecRange == InitRange /\ [][Calculate]_vars

(***************************************************************************)
(* Properties.                                                             *)
(***************************************************************************)
Has2(dct, k1, k2) == HasKey(dct, k1) /\ HasKey(Get(dct, k1), k2)

Group(gene, guide) == Get2(cq_dict, gene, guide)

Guides(gene) == KeySet(Get(cq_dict, gene))

Targets == SeqToSet(TargetGenes)

\* the four replicate groups behind the fold change of (gene, guide)
FourGroups(gene, guide) ==
    <<Group(RefGene, guide), Group(gene, guide),
      Group(RefGene, RefGuide(VisitDate(gene))), Group(gene, RefGuide(VisitDate(gene)))>>

AllNonEmpty(gs) == \A i \in 1..Len(gs) : Len(gs[i]) > 0

Ints(xs) == [i \in 1..Len(xs) |-> Int2Rat(xs[i])]

\* 2^x as a linear value
TwoTo(x) == [kind |-> "pos", e |-> Int2Rat(x), rn |-> 1, rd |-> 1]

\* C1: a gene under its own reference guide, with replicates in the gene's and
\* in hcaT's group under that guide, has ddCq_mean 0 and fold change 2^0 = 1.
C1_RefGuideFoldChangeIsOne ==
    \A gene \in Targets :
      LET ref == RefGuide(VisitDate(gene))
      IN  (Len(Group(RefGene, ref)) > 0 /\ Len(Group(gene, ref)) > 0) =>
            /\ Has2(dd_cq_mean_dict, gene, ref) =>
                 Get2(dd_cq_mean_dict, gene, ref) = Int2Rat(0)
            /\ Has2(dd_cq_mean_lin_dict, gene, ref) =>
                 Get2(dd_cq_mean_lin_dict, gene, ref) = TwoTo(0)

C1_Witness ==
    /\ pc = "done"
    /\ Group("ispA", "Rand42_20200813") = Ints(<<22, 23>>)
    /\ Group(RefGene, "Rand42_20200813") = Ints(<<23, 23>>)
    /\ Get2(dd_cq_mean_lin_dict, "ispA", "Rand42_20200813") = TwoTo(0)

\* C2: with hcaT = [23, 23] and the gene = [22, 22] under the guide, and
\* hcaT = [23, 23] and the gene = [23, 23] under the reference guide,
\* dCq is 1 under the guide and 0 under the reference guide, ddCq_mean is 1
\* and the fold change is 2^1 = 2.
C2_WorkedExample ==
    \A gene \in Targets : \A guide \in Guides(gene) \ {RefGuide(VisitDate(gene))} :
      (FourGroups(gene, guide)
         = <<Ints(<<23, 23>>), Ints(<<22, 22>>), Ints(<<23, 23>>), Ints(<<23, 23>>)>>) =>
        /\ Has2(d_cq_mean_dict, gene, guide) =>
             /\ Get2(d_cq_mean_dict, gene, guide) = Int2Rat(1)
             /\ Get2(d_cq_mean_dict, gene, RefGuide(VisitDate(gene))) = Int2Rat(0)
        /\ Has2(dd_cq_mean_dict, gene, guide) =>
             Get2(dd_cq_mean_dict, gene, guide) = Int2Rat(1)
        /\ Has2(dd_cq_mean_lin_dict, gene, guide) =>
             Get2(dd_cq_mean_lin_dict, gene, guide) = TwoTo(1)

C2_Witness ==
    /\ pc = "done"
    /\ FourGroups("ispA", "ispA1_C")
         = <<Ints(<<23, 23>>), Ints(<<22, 22>>), Ints(<<23, 23>>), Ints(<<23, 23>>)>>
    /\ Get2(dd_cq_mean_lin_dict, "ispA", "ispA1_C") = TwoTo(1)

\* every replicate of the gene under the guide lowered by k cycles, so that
\* hcaT's Cq minus the gene's grows by k; no other group changes
Shifted(cq, gene, guide, k) ==
    Set2(cq, gene, guide,
         [i \in 1..Len(Get2(cq, gene, guide)) |->
            RatSub(Get2(cq, gene, guide)[i], Int2Rat(k))])

Offsets == {-1, 1, 2}

\* C3: for a guide other than the gene's reference guide (the baseline group
\* is among the groups left unchanged) and four groups that hold replicates,
\* the calculation on the table with the gene's replicates under the guide
\* moved k cycles further from hcaT gives a ddCq_mean larger by exactly k and
\* a fold change 2^k times as large.
C3_OffsetScalesFoldChange ==
    \A gene \in Targets : \A guide \in Guides(gene) \ {RefGuide(VisitDate(gene))} :
      (AllNonEmpty(FourGroups(gene, guide)) /\ Has2(dd_cq_mean_lin_dict, gene, guide)) =>
        \A k \in Offsets :
          LET dd2  == DeltaDeltaCqOf(DeltaCqOf(CqStats(Shifted(cq_dict, gene, guide, k))))
              lin2 == LinearOf(dd2)
              was  == Get2(dd_cq_mean_dict, gene, guide)
          IN  /\ Get2(dd2.mean, gene, guide) = RatAdd(was, Int2Rat(k))
              /\ Get2(dd_cq_mean_lin_dict, gene, guide).kind = "pos"
              /\ Get2(lin2.mean, gene, guide).kind = "pos"
              /\ Get2(lin2.mean, gene, guide).e
                   = RatAdd(Get2(dd_cq_mean_lin_dict, gene, guide).e, Int2Rat(k))

C3_Witness ==
    /\ pc = "done"
    /\ FourGroups("topA", "topA1_C")[1] = Ints(<<22, 23>>)
    /\ FourGroups("topA", "topA1_C")[2] = Ints(<<22, 22>>)
    /\ Len(Group("topA", "Rand42_20200806")) = 2
    /\ Get2(dd_cq_mean_lin_dict, "topA", "topA1_C").kind = "pos"

\* C4 (as amended): with finite Cq values in four groups that hold replicates,
\* ddCq_mean is finite, and the fold change is 2^ddCq_mean > 0 when ddCq_mean
\* lies strictly between -1075 and 1024; at or below -1075 it is 0.0, and from
\* 1024 on math.pow raises OverflowError and no fold change is computed.
C4_FoldChangePositiveInRange ==
    \A gene \in Targets : \A guide \in Guides(gene) :
      (AllNonEmpty(FourGroups(gene, guide)) /\ Has2(dd_cq_mean_dict, gene, guide)) =>
        LET x == Get2(dd_cq_mean_dict, gene, guide)
        IN  /\ ~x.nan
            /\ pc \in {"plot", "done"} =>
                 /\ Has2(dd_cq_mean_lin_dict, gene, guide)
                 /\ RatLess(x, Int2Rat(1024))
                 /\ RatLess(Int2Rat(-1075), x) =>
                      Get2(dd_cq_mean_lin_dict, gene, guide)
                        = [kind |-> "pos", e |-> x, rn |-> 1, rd |-> 1]
                 /\ RatLeq(x, Int2Rat(-1075)) =>
                      Get2(dd_cq_mean_lin_dict, gene, guide).kind = "zero"
            /\ (RatLeq(Int2Rat(1024), x) /\ pc # "lin") =>
                 /\ pc = "aborted" /\ err = "OverflowError"
                 /\ ~Has2(dd_cq_mean_lin_dict, gene, guide)

C4_Witness ==
    /\ pc = "done"
    /\ AllNonEmpty(FourGroups("ispA", "ispA1_C"))
    /\ Get2(dd_cq_mean_dict, "ispA", "ispA1_C") = Int2Rat(-541)
    /\ Get2(dd_cq_mean_lin_dict, "ispA", "ispA1_C").kind = "pos"

\* C4 as stated: for any finite Cq values in the four groups, the computed
\* fold change is strictly greater than zero.
C4_FoldChangeAlwaysPositive ==
    \A gene \in Targets : \A guide \in Guides(gene) :
      (AllNonEmpty(FourGroups(gene, guide)) /\ Has2(dd_cq_mean_lin_dict, gene, guide)) =>
        Get2(dd_cq_mean_lin_dict, gene, guide).kind = "pos"

\* the loops of the calculation that have run
Aggregated == pc \in {"dcq", "ddcq", "lin", "plot", "done"}

Normalised == pc \in {"lin", "plot", "done"}

\* C5 as stated: when a group the aggregation step processes holds fewer than
\* two values, the computation fails with InsufficientReplicatesError and no
\* mean/SEM is produced for that group.
C5_InsufficientReplicatesRaised ==
    \A gene \in SeqToSet(AllGenes) : \A guide \in Guides(gene) :
      (Aggregated /\ Len(Group(gene, guide)) < 2) =>
        /\ err = "InsufficientReplicatesError"
        /\ ~Has2(cq_sem_dict, gene, guide)

\* C6 as stated: when hcaT's group under a guide, or the gene's group under
\* its reference guide, holds no replicate, normalising the gene under the
\* guide fails with MissingReferenceError and yields no fold change.
C6_MissingReferenceRaised ==
    \A gene \in Targets : \A guide \in Guides(gene) :
      (Normalised /\ (Len(Group(RefGene, guide)) = 0
                      \/ Len(Group(gene, RefGuide(VisitDate(gene)))) = 0)) =>
        /\ err = "MissingReferenceError"
        /\ ~Has2(dd_cq_mean_lin_dict, gene, guide)

\* the line last taken from a file, while the import cell is running or aborted
Importing == pc \in {"read", "aborted"} /\ sp # <<>>

ReadDate == file_date(file_list[fi])

\* a line that is no (gene, guide, numeric Cq): too few fields, or a Cq field
\* that is not empty and not a number
Malformed(line) == Len(line) < 6 \/ (line[6] # "" /\ ~FloatOk(line[6]))

Analysed(line) ==
    /\ line[3] \in SeqToSet(gene_list[ReadDate])
    /\ line[5] \in Guides(line[3])

\* C7 (as amended): a line stops the import with IndexError exactly when it has
\* fewer than 3 fields, or a non-empty gene field and fewer than 6 fields; with
\* ValueError exactly when it has at least 6 fields, non-empty gene and Cq
\* fields, a gene of the file's gene list with a guide registered for it, and
\* a Cq field that is not a number.  Every other line, malformed or not,
\* raises nothing.
C7_ImportFailsExactlyWhen ==
    Importing =>
      /\ err = "IndexError" <=>
           (Len(sp) < 3 \/ (sp[3] # "" /\ Len(sp) < 6))
      /\ err = "ValueError" <=>
           (Len(sp) >= 6 /\ sp[3] # "" /\ sp[6] # "" /\ Analysed(sp) /\ ~FloatOk(sp[6]))
      /\ err \in {"none", "IndexError", "ValueError"}
      /\ err # "none" <=> pc = "aborted"

C7_Witness ==
    /\ pc = "aborted" /\ err = "ValueError"
    /\ sp = Row("hcaT", "Rand42_20200813", "abc")
    /\ ReadDate = "20200806"

\* C7 as stated: every malformed line makes the import fail, also a line whose
\* gene or guide is not one being analysed.
C7_EveryMalformedRowFails ==
    (Importing /\ Malformed(sp)) => (pc = "aborted" /\ err # "none")

\* a fold change of (gene, guide) rests on a group with fewer than 2 replicates
Deficient(gene, guide) ==
    \E i \in 1..4 : Len(FourGroups(gene, guide)[i]) < 2

NoNaNIn(xs) == \A i \in 1..Len(xs) : xs[i].kind # "nan"

\* C8 as stated: once an error occurs (an exception, a missing reference,
\* insufficient replicates) nothing is emitted for the dataset, and no NaN is
\* passed on to the output lists.
C8_ErrorsAreFatal ==
    /\ err # "none" => (qPCR_mean = <<>> /\ qPCR_sem = <<>> /\ labels = <<>>)
    /\ (\E gene \in Targets : \E guide \in Guides(gene) :
          ~StartsWithRand42(guide) /\ Deficient(gene, guide)) =>
         (qPCR_mean = <<>> /\ qPCR_sem = <<>>)
    /\ NoNaNIn(qPCR_mean) /\ NoNaNIn(qPCR_sem)

\* C9 as stated: every (gene, guide) has hcaT's group registered under the
\* guide and the gene's reference-guide group registered, and once it is
\* normalised both groups hold at least one measurement.
C9_NormalisedHasMeasurements ==
    \A gene \in Targets : \A guide \in Guides(gene) :
      /\ Has2(cq_dict, RefGene, guide)
      /\ Has2(cq_dict, gene, RefGuide(VisitDate(gene)))
      /\ Has2(dd_cq_mean_dict, gene, guide) =>
           /\ Len(Group(RefGene, guide)) >= 1
           /\ Len(Group(gene, RefGuide(VisitDate(gene)))) >= 1

RECURSIVE SumOfSquares(_)
SumOfSquares(xs) ==
    IF xs = <<>> THEN Int2Rat(0)
    ELSE RatAdd(RatMul(Head(xs), Head(xs)), SumOfSquares(Tail(xs)))

\* the squared SEM of n >= 2 values: (n * sum(x^2) - sum(x)^2) / (n^2 * (n - 1))
SemSquared(xs) ==
    LET cnt == Len(xs)
    IN  RatDivInt(RatSub(RatMul(Int2Rat(cnt), SumOfSquares(xs)),
                         RatMul(RatSum(xs), RatSum(xs))),
                  cnt * cnt * (cnt - 1))

\* C10: for every non-reference gene and every guide registered for it,
\* dCq_mean times n_hcaT * n_gene is n_gene * sum(hcaT replicates) minus
\* n_hcaT * sum(gene replicates) (nan when a group is empty), and the square
\* of its error is the sum of the squared SEMs of the two groups (nan when a
\* group has fewer than 2 replicates).
C10_DeltaCq ==
    \A gene \in Targets : \A guide \in Guides(gene) :
      Has2(d_cq_mean_dict, gene, guide) =>
        LET h == Group(RefGene, guide)
            g == Group(gene, guide)
            m == Get2(d_cq_mean_dict, gene, guide)
            se == Get2(d_cq_sem_dict, gene, guide)
        IN  /\ m.nan <=> (Len(h) = 0 \/ Len(g) = 0)
            /\ ~m.nan =>
                 RatMul(m, Int2Rat(Len(h) * Len(g)))
                   = RatSub(RatMul(RatSum(h), Int2Rat(Len(g))),
                            RatMul(RatSum(g), Int2Rat(Len(h))))
            /\ se.nan <=> (Len(h) < 2 \/ Len(g) < 2)
            /\ ~se.nan => Squared(se) = RatAdd(SemSquared(h), SemSquared(g))

C10_Witness ==
    /\ pc = "done"
    /\ Group("topA", "Rand42_20200806") = Ints(<<22, 23>>)
    /\ Get2(d_cq_mean_dict, "topA", "Rand42_20200806") = Rat(217, 200)
    /\ Squared(Get2(d_cq_sem_dict, "topA", "Rand42_20200806")) = Rat(10441, 40000)

\* the mean of the replicates of a group, computed from the raw table
MeanOf(gene, guide) == np_mean(Group(gene, guide))

\* C11: for every non-reference gene and every guide registered for it,
\* ddCq_mean is dCq_mean under the guide minus dCq_mean under the gene's
\* reference guide (which is (hcaT - gene) under the guide minus (hcaT - gene)
\* under the reference guide on the group means), the square of its error is
\* the sum of the squares of the two dCq errors, and a ddCq error that is a
\* number is not smaller than either of the two dCq errors.
C11_DeltaDeltaCq ==
    \A gene \in Targets : \A guide \in Guides(gene) :
      Has2(dd_cq_mean_dict, gene, guide) =>
        LET ref == RefGuide(VisitDate(gene))
            m   == Get2(dd_cq_mean_dict, gene, guide)
            se  == Get2(dd_cq_sem_dict, gene, guide)
            s1  == Get2(d_cq_sem_dict, gene, guide)
            s2  == Get2(d_cq_sem_dict, gene, ref)
        IN  /\ m = RatSub(Get2(d_cq_mean_dict, gene, guide),
                          Get2(d_cq_mean_dict, gene, ref))
            /\ m = RatSub(RatSub(MeanOf(RefGene, guide), MeanOf(gene, guide)),
                          RatSub(MeanOf(RefGene, ref), MeanOf(gene, ref)))
            /\ se.nan <=> (s1.nan \/ s2.nan)
            /\ ~se.nan =>
                 /\ Squared(se) = RatAdd(Squared(s1), Squared(s2))
                 /\ RatLeq(Squared(s1), Squared(se))
                 /\ RatLeq(Squared(s2), Squared(se))

C11_Witness ==
    /\ pc = "done"
    /\ Group(RefGene, "topA1_C") = Ints(<<22, 23>>)
    /\ Group("topA", "topA1_C") = Ints(<<22, 23>>)
    /\ Group("topA", "Rand42_20200806") = Ints(<<22, 23>>)
    /\ Get2(dd_cq_mean_dict, "topA", "topA1_C") = Rat(-217, 200)
    /\ Squared(Get2(d_cq_sem_dict, "topA", "topA1_C")) = Rat(1, 2)
    /\ Squared(Get2(dd_cq_sem_dict, "topA", "topA1_C")) = Rat(30441, 40000)

\* a finite, non-negative linear value: 0.0 or a positive double
FiniteNonNegative(v) == v.kind \in {"zero", "pos"}

\* C12 as stated: every fold change and every fold-change SEM the calculation
\* produces, in the linear tables and in the lists handed to the bar chart,
\* is a finite non-negative number, never NaN.
C12_OutputsFiniteNonNegative ==
    /\ \A gene \in Targets : \A guide \in Guides(gene) :
         Has2(dd_cq_mean_lin_dict, gene, guide) =>
           /\ FiniteNonNegative(Get2(dd_cq_mean_lin_dict, gene, guide))
           /\ FiniteNonNegative(Get2(dd_cq_sem_lin_dict, gene, guide))
    /\ \A i \in 1..Len(qPCR_mean) : FiniteNonNegative(qPCR_mean[i])
    /\ \A i \in 1..Len(qPCR_sem) : FiniteNonNegative(qPCR_sem[i])

\* the cells up to and including the well correction have not finished
BeforeCorrection == pc \in {"open", "read", "correct"}

\* the cells from the aggregation on
AfterCorrection == pc \in {"aggregate", "dcq", "ddcq", "lin", "plot", "done"}

Excluded == PrintedGroup[1]

Contains(xs, x) == \E i \in 1..Len(xs) : xs[i] = x

\* C13: the correction runs when both files have been read and before any
\* mean or SEM exists; the step replaces the hcaT group under Rand42_20200806
\* by the two kept replicates, so that neither the excluded value 21.83 nor
\* the first replicate that was imported into the group is in it afterwards;
\* from then on the group stays as corrected, and its mean and SEM (and with
\* them every dCq, ddCq and fold change) are those of the two kept replicates.
C13_ExclusionBeforeAggregation ==
    /\ [](BeforeCorrection => NoTables)
    /\ []((pc = "correct" \/ AfterCorrection) => fi = Len(file_list) + 1)
    /\ [][pc = "correct" =>
            /\ pc' = "aggregate"
            /\ Len(Group(RefGene, "Rand42_20200806")) > 0 =>
                 ~Contains(Group(RefGene, "Rand42_20200806")',
                           Head(Group(RefGene, "Rand42_20200806")))]_vars
    /\ [](AfterCorrection =>
            /\ Group(RefGene, "Rand42_20200806") = Tail(PrintedGroup)
            /\ ~Contains(Group(RefGene, "Rand42_20200806"), Excluded))
    /\ [](Aggregated =>
            /\ Get2(cq_mean_dict, RefGene, "Rand42_20200806") = Rat(4717, 200)
            /\ Squared(Get2(cq_sem_dict, RefGene, "Rand42_20200806")) = Rat(441, 40000))

C13_Witness ==
    /\ pc = "done"
    /\ Group(RefGene, "Rand42_20200806") = <<Rat(2348, 100), Rat(2369, 100)>>
    /\ Group("topA", "Rand42_20200806") = Ints(<<22, 23>>)
    /\ Get2(cq_mean_dict, RefGene, "Rand42_20200806") = Rat(4717, 200)
    /\ Get2(d_cq_mean_dict, "topA", "Rand42_20200806") = Rat(217, 200)

\* C14: each of the four steps of the calculation leaves the raw replicate
\* table cq_dict as it was, and writes only its own pair of result tables:
\* the tables of the other steps are unchanged by it.
C14_CalculationIsPure ==
    [][/\ pc \in {"aggregate", "dcq", "ddcq", "lin"} => cq_dict' = cq_dict
       /\ pc = "aggregate" =>
            UNCHANGED <<d_cq_mean_dict, d_cq_sem_dict, dd_cq_mean_dict, dd_cq_sem_dict,
                        dd_cq_mean_lin_dict, dd_cq_sem_lin_dict>>
       /\ pc = "dcq" =>
            UNCHANGED <<cq_mean_dict, cq_sem_dict, dd_cq_mean_dict, dd_cq_sem_dict,
                        dd_cq_mean_lin_dict, dd_cq_sem_lin_dict>>
       /\ pc = "ddcq" =>
            UNCHANGED <<cq_mean_dict, cq_sem_dict, d_cq_mean_dict, d_cq_sem_dict,
                        dd_cq_mean_lin_dict, dd_cq_sem_lin_dict>>
       /\ pc = "lin" =>
            UNCHANGED <<cq_mean_dict, cq_sem_dict, d_cq_mean_dict, d_cq_sem_dict,
                        dd_cq_mean_dict, dd_cq_sem_dict>>]_vars

C14_Witness ==
    /\ pc = "plot"
    /\ Group("topA", "topA1_C") = Ints(<<22, 23>>)
    /\ Group(RefGene, "topA1_C") = Ints(<<23, 23>>)
    /\ Get2(cq_mean_dict, "topA", "topA1_C") = Rat(45, 2)
    /\ Get2(d_cq_mean_dict, "topA", "topA1_C") = Rat(1, 2)
    /\ Has2(dd_cq_mean_lin_dict, "topA", "topA1_C")

\* the content of column i (counted from 1) of a line, without the line break
\* that line.split(',') leaves on the last field
Field(line, i) == IF i = Len(line) THEN Strip(line[i]) ELSE line[i]

EmptyField(line, i) == Len(line) >= i /\ Field(line, i) = ""

\* a step of `for line in f`: one more line has been taken from the file
ReadsLine == pc = "read" /\ nread' = nread + 1

\* the groups of cq_dict other than (gene, guide) are left as they were
OthersUnchanged(gene, guide) ==
    \A g \in KeySet(cq_dict) : \A k \in KeySet(Get(cq_dict, g)) :
      <<g, k>> # <<gene, guide>> => Get2(cq_dict, g, k)' = Get2(cq_dict, g, k)

\* C15 as stated: a line whose gene column or Cq column is empty is skipped,
\* it changes no group and raises no error; an accepted line (gene and Cq not
\* empty, gene in the file's list, guide registered, Cq a number) appends its
\* Cq value to the group of its gene and guide and changes no other group.
C15_EmptyFieldRowsSkipped ==
    [][ReadsLine =>
         LET line == sp'
         IN  /\ (EmptyField(line, 3) \/ EmptyField(line, 6)) =>
                  (cq_dict' = cq_dict /\ err' = "none" /\ pc' = "read")
             /\ (/\ Len(line) >= 6
                 /\ ~EmptyField(line, 3) /\ ~EmptyField(line, 6)
                 /\ Analysed(line) /\ FloatOk(line[6])) =>
                  /\ err' = "none"
                  /\ Get2(cq_dict', line[3], line[5])
                       = Append(Get2(cq_dict, line[3], line[5]),
                                Int2Rat(DigitsValue(Field(line, 6))))
                  /\ OthersUnchanged(line[3], line[5])]_vars

\* the notebook has run to its end
Completed == pc = "done" /\ err = "none"

\* the keys of a dict are listed once each
NoDuplicateKeys(dct) == Len(dct.keys) = Cardinality(KeySet(dct))

\* the six tables derived per non-reference gene
DerivedTables ==
    <<d_cq_mean_dict, d_cq_sem_dict, dd_cq_mean_dict, dd_cq_sem_dict,
      dd_cq_mean_lin_dict, dd_cq_sem_lin_dict>>

\* C16: when the notebook has run to its end, each of the tables of dCq, ddCq
\* and linear values has exactly the non-reference genes as keys (no hcaT),
\* and for each such gene exactly the guides of its raw replicate groups,
\* each once; the mean/SEM tables have the genes and guides of cq_dict.  So
\* there is one fold change and one SEM per (gene, guide) of every
\* non-reference gene.
C16_OneResultPerPair ==
    Completed =>
      /\ KeySet(cq_mean_dict) = KeySet(cq_dict)
      /\ KeySet(cq_sem_dict) = KeySet(cq_dict)
      /\ \A g \in KeySet(cq_dict) :
           /\ KeySet(Get(cq_mean_dict, g)) = Guides(g)
           /\ KeySet(Get(cq_sem_dict, g)) = Guides(g)
      /\ \A i \in 1..Len(DerivedTables) :
           /\ KeySet(DerivedTables[i]) = Targets
           /\ RefGene \notin KeySet(DerivedTables[i])
           /\ NoDuplicateKeys(DerivedTables[i])
           /\ \A g \in Targets :
                /\ KeySet(Get(DerivedTables[i], g)) = Guides(g)
                /\ NoDuplicateKeys(Get(DerivedTables[i], g))

C16_Witness ==
    /\ Completed
    /\ Group("ispA", "Rand42_20200813") = Ints(<<22>>)
    /\ KeySet(dd_cq_mean_lin_dict) = {"topA", "ribB", "ispA", "mukF", "tadA"}
    /\ KeySet(Get(dd_cq_sem_lin_dict, "ispA")) = {"ispA1_C", "ispA3_C", "Rand42_20200813"}

\* the table as it would be without the well correction: the group holds the
\* three replicates the notebook printed
Uncorrected(cq) == Set2(cq, RefGene, "Rand42_20200806", PrintedGroup)

\* the ddCq errors the calculation gives on the uncorrected table
UncorrectedSem == DeltaDeltaCqOf(DeltaCqOf(CqStats(Uncorrected(cq_dict)))).sem

GuideDates(guide) ==
    {date \in DOMAIN gene_list :
       \E g \in SeqToSet(gene_list[date]) \ {RefGene} : guide \in Guides(g)}

\* C18 as stated: a line read from a file changes only groups whose guide
\* belongs to the date of that file, the groups of hcaT included.
C18_NoCrossDateRows ==
    [][ReadsLine =>
         \A g \in KeySet(cq_dict) : \A k \in Guides(g) :
           Get2(cq_dict', g, k) # Get2(cq_dict, g, k) => ReadDate \in GuideDates(k)]_vars

\* the file dates whose gene list names the gene
ListedDates(gene) == {date \in DOMAIN gene_list : InList(gene, gene_list[date])}

\* C19: every non-reference gene is listed under exactly one file date; the
\* only guide registered for it whose name starts with 'Rand42' is the
\* 'Rand42_<date>' of that date (the other date's reference guide is not
\* among its guides), and the ddCq of every guide of the gene is its dCq
\* minus the dCq of the gene under that one reference guide, the error being
\* combined with the dCq error under that same guide.
C19_SingleReferenceGuide ==
    \A gene \in Targets :
      /\ Cardinality(ListedDates(gene)) = 1
      /\ \A date \in ListedDates(gene) :
           /\ {k \in Guides(gene) : StartsWithRand42(k)} = {RefGuide(date)}
           /\ HasKey(dd_cq_mean_dict, gene) =>
                \A guide \in Guides(gene) :
                  /\ Get2(dd_cq_mean_dict, gene, guide)
                       = RatSub(Get2(d_cq_mean_dict, gene, guide),
                                Get2(d_cq_mean_dict, gene, RefGuide(date)))
                  /\ Get2(dd_cq_sem_dict, gene, guide)
                       = math_sqrt(RatAdd(Squared(Get2(d_cq_sem_dict, gene, guide)),
                                          Squared(Get2(d_cq_sem_dict, gene, RefGuide(date)))))

C19_Witness ==
    /\ pc = "done"
    /\ ListedDates("ispA") = {"20200813"}
    /\ Get2(d_cq_mean_dict, "ispA", "Rand42_20200813") = Int2Rat(1)
    /\ Get2(d_cq_mean_dict, "ispA", "ispA1_C") = Int2Rat(0)
    /\ Get2(dd_cq_mean_dict, "ispA", "ispA1_C") = Int2Rat(-1)
    /\ Get2(dd_cq_mean_dict, "ispA", "Rand42_20200813") = Int2Rat(0)

\* a line that parses as (gene, guide, numeric Cq)
WellFormed(line) == Len(line) >= 6 /\ line[3] # "" /\ FloatOk(line[6])

RECURSIVE CountReplicates(_, _)
CountReplicates(cq, pairs) ==
    IF pairs = <<>> THEN 0
    ELSE Len(Get2(cq, Head(pairs)[1], Head(pairs)[2])) + CountReplicates(cq, Tail(pairs))

\* the replicates held by all groups of cq_dict together
TotalReplicates == CountReplicates(cq_dict, GuidePairs(cq_dict, AllGenes, 1))

\* C20: a well-formed line whose gene is not in the gene list of the file
\* being read, or whose guide is not registered for its gene, leaves cq_dict
\* as it was and raises no error; opening a file and taking its first line
\* leaves cq_dict as it was, and while the files are read cq_dict never holds
\* more replicates than lines were read after the first lines.
C20_UnanalysedRowsDropped ==
    /\ [][ReadsLine =>
            ((WellFormed(sp') /\ ~Analysed(sp')) =>
               (cq_dict' = cq_dict /\ err' = "none" /\ pc' = "read"))]_vars
    /\ [][pc = "open" => (cq_dict' = cq_dict /\ first_line' # <<>>)]_vars
    /\ [](pc \in {"open", "read", "correct"} => TotalReplicates <= nread)

C20_Witness ==
    /\ pc = "read" /\ err = "none"
    /\ first_line = Row("hcaT", "Rand42_20200806", "22")
    /\ sp = Row("hcaT", "lacZ1_C", "23")
    /\ nread = 2
    /\ TotalReplicates = 0

\* the bars of Figure S7B: the genes in file order, then gene-list order,
\* each under its two targeting guides
BarGenes ==
    <<"topA", "topA", "ribB", "ribB",
      "ispA", "ispA", "mukF", "mukF", "tadA", "tadA">>

BarLabels ==
    <<"topA1_C", "topA3_C", "ribB1_C", "ribB3_C",
      "ispA1_C", "ispA3_C", "mukF1_C", "mukF3_C", "tadA1_C", "tadA3_C">>

\* C21: the three lists always have the same length and hold no guide whose
\* name starts with 'Rand42'; they are empty until the plot cell has run, and
\* then labels lists the two targeting guides of every non-reference gene,
\* each once, gene by gene in file order and gene-list order (which are all
\* the guides of these genes not starting with 'Rand42'), and entry i of
\* qPCR_mean and of qPCR_sem is the fold change and the SEM of the gene and
\* guide of labels[i].
C21_PlotListsAligned ==
    /\ Len(qPCR_mean) = Len(labels) /\ Len(qPCR_sem) = Len(labels)
    /\ \A i \in 1..Len(labels) : ~StartsWithRand42(labels[i])
    /\ pc # "done" => labels = <<>>
    /\ pc = "done" =>
         /\ labels = BarLabels
         /\ \A i \in 1..Len(BarLabels) :
              /\ BarGenes[i] \in Targets
              /\ qPCR_mean[i] = Get2(dd_cq_mean_lin_dict, BarGenes[i], BarLabels[i])
              /\ qPCR_sem[i] = Get2(dd_cq_sem_lin_dict, BarGenes[i], BarLabels[i])
         /\ \A gene \in Targets :
              {k \in Guides(gene) : ~StartsWithRand42(k)}
                = {BarLabels[i] : i \in {j \in 1..Len(BarLabels) : BarGenes[j] = gene}}

C21_Witness ==
    /\ pc = "done"
    /\ Group(RefGene, "topA1_C") = Ints(<<23>>)
    /\ Group("topA", "topA1_C") = Ints(<<22>>)
    /\ Group("topA", "Rand42_20200806") = Ints(<<22>>)
    /\ Len(labels) = 10 /\ labels[1] = "topA1_C" /\ labels[10] = "tadA3_C"
    /\ qPCR_mean[1] = [kind |-> "pos", e |-> Rat(-117, 200), rn |-> 1, rd |-> 1]
    /\ qPCR_mean[2].kind = "nan"

=============================================================================
